---- MODULE Spec2Model ----
(***************************************************************************)
(* A model of rdtools/availability.py: is_online, downtime_loss,           *)
(* profile_to_signal and signal_to_profile.                                *)
(*                                                                         *)
(* Numbers.  A value of a pandas float column is a pair <<n, d>>: for      *)
(* d > 0 the rational n/d in lowest terms, and for d = 0 one of the IEEE   *)
(* special values NaN = <<0,0>>, +inf = <<1,0>>, -inf = <<-1,0>>.  The     *)
(* arithmetic of is_online and downtime_loss is exact on the rationals and *)
(* follows IEEE 754 on the special values (x/0, 0/0, inf-inf, comparisons  *)
(* with NaN).  signal_to_profile's mean is the one place where a claim is  *)
(* about exact equality after a sum and a division, so there the binary    *)
(* rounding of every operation is modelled too (FRound).                   *)
(***************************************************************************)
EXTENDS Integers, Sequences, FiniteSets, TLC

\* ------------------------------------------------------------ numbers

Abs(x) == IF x < 0 THEN -x ELSE x

Sgn(x) == IF x < 0 THEN -1 ELSE IF x > 0 THEN 1 ELSE 0

RECURSIVE Gcd(_, _)
Gcd(a, b) == IF b = 0 THEN a ELSE Gcd(b, a % b)

\* The value n/d, d any integer: lowest terms, d > 0; n/0 is NaN or +-inf.
Norm(n, d) ==
    IF d = 0 THEN <<Sgn(n), 0>>
    ELSE LET g == Gcd(Abs(n), Abs(d))
         IN  <<(Sgn(d) * n) \div g, Abs(d) \div g>>

NaN == <<0, 0>>
Inf == <<1, 0>>
R(n) == <<n, 1>>
Zero == <<0, 1>>
One == <<1, 1>>

IsNaN(a) == a[1] = 0 /\ a[2] = 0
IsFinite(a) == a[2] # 0

Neg(a) == <<-a[1], a[2]>>

Add(a, b) ==
    IF a[2] # 0 /\ b[2] # 0 THEN Norm(a[1] * b[2] + b[1] * a[2], a[2] * b[2])
    ELSE IF IsNaN(a) \/ IsNaN(b) THEN NaN
    ELSE IF a[2] = 0 /\ b[2] = 0 THEN (IF a = b THEN a ELSE NaN)
    ELSE IF a[2] = 0 THEN a ELSE b

Sub(a, b) == Add(a, Neg(b))

\* inf * 0 and NaN * x come out as 0/0 = NaN, inf * x as sign(x)/0.
Mul(a, b) == Norm(a[1] * b[1], a[2] * b[2])

\* x/0 is sign(x) * inf, 0/0 and inf/inf are NaN, x/inf is 0.
Div(a, b) == Mul(a, <<Sgn(b[1]) * b[2] + (IF b = Zero THEN 1 ELSE 0), Abs(b[1])>>)

\* Comparisons are False when either side is NaN.
Lt(a, b) ==
    /\ ~IsNaN(a) /\ ~IsNaN(b)
    /\ IF a[2] = 0 /\ b[2] = 0 THEN a[1] < b[1] ELSE a[1] * b[2] < b[1] * a[2]

Gt(a, b) == Lt(b, a)
Le(a, b) == ~IsNaN(a) /\ ~IsNaN(b) /\ ~Lt(b, a)
Ge(a, b) == Le(b, a)
Eq(a, b) == ~IsNaN(a) /\ a = b

\* Series.fillna(0), DataFrame.fillna(0)
FillNa0(a) == IF IsNaN(a) THEN Zero ELSE a

\* Series.clip(lower=lo), Series.clip(upper=hi): NaN stays NaN.
ClipLower(a, lo) == IF Lt(a, lo) THEN lo ELSE a
ClipUpper(a, hi) == IF Gt(a, hi) THEN hi ELSE a

\* ------------------------------------------------- reductions (skipna)

\* The sequence f with its elements computed once (a function written
\* [i \in 1..n |-> e] computes e again at every application).
Mk(f) == SubSeq(f, 1, Len(f))

\* The values of s that are not NaN, in order.
DropNa(s) == SelectSeq(Mk(s), LAMBDA a : ~IsNaN(a))

RECURSIVE SumSeq(_)
SumSeq(s) == IF s = <<>> THEN Zero ELSE Add(Head(s), SumSeq(Tail(s)))

\* Series.sum(), DataFrame.sum(axis): NaN skipped, 0 when nothing is left.
NanSum(s) == SumSeq(DropNa(s))

\* Series.mean(), DataFrame.mean(axis): NaN skipped, NaN when nothing is left.
NanMean(s) ==
    LET v == DropNa(s)
    IN  IF v = <<>> THEN NaN ELSE Div(SumSeq(v), R(Len(v)))

RECURSIVE Insert(_, _)
Insert(a, s) ==
    IF s = <<>> THEN <<a>>
    ELSE IF Lt(Head(s), a) THEN <<Head(s)>> \o Insert(a, Tail(s))
    ELSE <<a>> \o s

RECURSIVE Sorted(_)
Sorted(s) == IF s = <<>> THEN <<>> ELSE Insert(Head(s), Sorted(Tail(s)))

\* Series.median(), DataFrame.median(): NaN skipped; the middle value, or the
\* mean of the two middle values.
NanMedian(s) ==
    LET v == Sorted(DropNa(s))
        n == Len(v)
    IN  IF n = 0 THEN NaN
        ELSE IF n % 2 = 1 THEN v[(n + 1) \div 2]
        ELSE Div(Add(v[n \div 2], v[n \div 2 + 1]), R(2))

\* DataFrame.min(axis=1): NaN skipped, NaN when nothing is left.
NanMin(s) ==
    LET v == Sorted(DropNa(s))
    IN  IF v = <<>> THEN NaN ELSE v[1]

\* Series.quantile(q/100), linear interpolation between order statistics.
Quantile(s, q) ==
    LET v == Sorted(s)
        h == (Len(v) - 1) * q
        lo == h \div 100 + 1
        fr == <<h % 100, 100>>
    IN  IF lo >= Len(v) THEN v[Len(v)]
        ELSE Add(v[lo], Mul(Norm(fr[1], fr[2]), Sub(v[lo + 1], v[lo])))

\* ------------------------------------------------------------ is_online

\* A table is a sequence of rows (one per timestamp), a row a sequence of
\* values (one per inverter); a series is a sequence of values.
NumRows(tab) == Len(tab)
NumCols(tab) == Len(tab[1])
Column(tab, j) == Mk([t \in 1..Len(tab) |-> tab[t][j]])
FillTable(tab) == Mk([t \in 1..Len(tab) |-> Mk([j \in 1..Len(tab[t]) |-> FillNa0(tab[t][j])])])
FillSeries(s) == Mk([t \in 1..Len(s) |-> FillNa0(s[t])])

\* low_limit as the caller passes it: [kind |-> "none"], a float
\* [kind |-> "scalar", x |-> a], or a series [kind |-> "series", v |-> <<...>>].
\* The per-inverter threshold the comparisons broadcast it to; the default
\* is 0.01 * inverters.quantile(0.99).
Threshold(inv, ll, j) ==
    IF ll.kind = "none" THEN Mul(<<1, 100>>, Quantile(Column(inv, j), 99))
    ELSE IF ll.kind = "scalar" THEN ll.x
    ELSE ll.v[j]

\* np.sum(low_limit): a float is its own sum; a series sums its entries.
SumLowLimit(inv, ll) ==
    IF ll.kind = "scalar" THEN ll.x
    ELSE NanSum([j \in 1..NumCols(inv) |-> Threshold(inv, ll, j)])

\* inverters[inverters > low_limit]: NaN where the reading is not above.
AboveOrNaN(inv, thr) ==
    Mk([t \in 1..Len(inv) |-> Mk([j \in 1..Len(thr) |->
        IF Gt(inv[t][j], thr[j]) THEN inv[t][j] ELSE NaN])])

\* median over time of masked / mean_inverter_power, per inverter
RelativeSizing(masked, mean1) ==
    Mk([j \in 1..Len(masked[1]) |->
        NanMedian([t \in 1..Len(masked) |-> Div(masked[t][j], mean1[t])])])

\* all_inverters_appear_offline
AllInvertersAppearOffline(inv, thr, t) == \A j \in 1..Len(thr) : Lt(inv[t][j], thr[j])

\* mean_inverter_power after the sizing correction and the meter / n_inv
\* substitution
MeanInverterPower(inv, met, thr, masked, rs) ==
    Mk([t \in 1..Len(inv) |->
        IF AllInvertersAppearOffline(inv, thr, t) THEN Div(met[t], R(Len(thr)))
        ELSE NanMean([j \in 1..Len(thr) |-> Div(masked[t][j], rs[j])])])

\* site_offline = all_inverters_appear_offline & (meter < np.sum(low_limit))
SiteOffline(inv, met, thr, sumll, t) ==
    AllInvertersAppearOffline(inv, thr, t) /\ Lt(met[t], sumll)

\* meter_delta = 1 - meter / (n_inv * mean_inverter_power)
MeterDelta(met, mip, n, t) == Sub(One, Div(met[t], Mul(R(n), mip[t])))

\* inverter_fraction = relative_sizing / relative_sizing.sum()
InverterFraction(rs) == Mk([j \in 1..Len(rs) |-> Div(rs[j], NanSum(rs))])

\* smallest_delta: the smallest fraction among the inverters at or below
\* their threshold, 1 when there is none (or none with a known fraction).
SmallestDelta(inv, thr, fr, t) ==
    LET m == NanMin([j \in 1..Len(thr) |->
                 IF Le(inv[t][j], thr[j]) THEN fr[j] ELSE NaN])
    IN  IF IsNaN(m) THEN One ELSE m

\* MeterAppearsLow without the 0.75 slack.
MeterAppearsLowNoSlack(delta, smallest) == Gt(delta, smallest)

\* meter_appears_low = meter_delta > 0.75 * smallest_delta
MeterAppearsLow(delta, smallest) == Gt(delta, Mul(<<3, 4>>, smallest))

\* inverters_appear_offline = ~(inverters > low_limit).all(axis=1)
InvertersAppearOffline(inv, thr, t) == ~(\A j \in 1..Len(thr) : Gt(inv[t][j], thr[j]))

\* MaskRow with the rows of inverters_offline set to False altogether
\* instead of to inverters.gt(low_limit).
MaskRowAllOffline(inv, thr, invOffline, siteOffline, t) ==
    Mk([j \in 1..Len(thr) |-> ~(siteOffline \/ invOffline)])

\* One row of the mask: True, then inverters.gt(low_limit) on the rows of
\* inverters_offline, then False on the rows of site_offline.
MaskRow(inv, thr, invOffline, siteOffline, t) ==
    Mk([j \in 1..Len(thr) |->
        IF siteOffline THEN FALSE
        ELSE IF invOffline THEN Gt(inv[t][j], thr[j])
        ELSE TRUE])

\* is_online(inverters, meter, low_limit)
IsOnlineMask(inverters, meter, ll) ==
    LET inv == FillTable(inverters)
        met == FillSeries(meter)
        n == NumCols(inv)
        thr == Mk([j \in 1..n |-> Threshold(inv, ll, j)])
        sumll == SumLowLimit(inv, ll)
        masked == AboveOrNaN(inv, thr)
        mean1 == Mk([t \in 1..Len(inv) |-> NanMean(masked[t])])
        rs == RelativeSizing(masked, mean1)
        mip == MeanInverterPower(inv, met, thr, masked, rs)
        fr == InverterFraction(rs)
    IN  Mk([t \in 1..Len(inv) |->
            MaskRow(inv, thr,
                    InvertersAppearOffline(inv, thr, t)
                        /\ MeterAppearsLow(MeterDelta(met, mip, n, t),
                                           SmallestDelta(inv, thr, fr, t)),
                    SiteOffline(inv, met, thr, sumll, t), t)])

\* ---------------------------------------------------- profile_to_signal

\* ProfileToSignal with the merge keys crossed (the hour looked up as the
\* month).
ProfileToSignalCrossed(profile, tms) ==
    Mk([t \in 1..Len(tms) |->
        IF <<tms[t][2], tms[t][1]>> \in DOMAIN profile
        THEN profile[<<tms[t][2], tms[t][1]>>] ELSE NaN])

\* A timestamp is modelled by what the code reads of it: <<hour, month>>
\* (times.hour, times.month).  A profile is a function on the <<hour, month>>
\* pairs it has a cell for.  The left merge on ['Month', 'Hour'] gives every
\* timestamp the value of its cell, or NaN when the profile has no such cell.
ProfileToSignal(profile, tms) ==
    Mk([t \in 1..Len(tms) |->
        IF tms[t] \in DOMAIN profile THEN profile[tms[t]] ELSE NaN])

\* --------------------------------------------------------- downtime_loss

\* inverter_shares: per inverter, the median over its online timestamps of
\* inverter / meter, then normalized by the sum of the medians.
InverterShares(inv, met, mask) ==
    LET med == Mk([j \in 1..Len(inv[1]) |->
                   NanMedian([t \in 1..Len(inv) |->
                       IF mask[t][j] THEN Div(inv[t][j], met[t]) ELSE NaN])])
        total == NanSum(med)
    IN  Mk([j \in 1..Len(med) |-> Div(med[j], total)])

\* online_mask.multiply(inverter_shares, axis=1).sum(axis=1)
RawOnlineFraction(mask, shares, t) ==
    NanSum([j \in 1..Len(shares) |->
        Mul(IF mask[t][j] THEN One ELSE Zero, shares[j])])

\* communications_factor = (meter / inv_sum).clip(lower=1), and 1 where the
\* online fraction is 0
CommunicationsFactor(inv, met, raw, t) ==
    IF Eq(raw, Zero) THEN One
    ELSE ClipLower(Div(met[t], NanSum(inv[t])), One)

\* online_fraction after the communications correction and clip(upper=1)
OnlineFraction(inv, met, mask, shares, t) ==
    LET raw == RawOnlineFraction(mask, shares, t)
    IN  ClipUpper(Mul(raw, CommunicationsFactor(inv, met, raw, t)), One)

\* lost_power = (meter / online_fraction - meter).clip(lower=0)
EstimatedLoss(met, frac, t) == ClipLower(Sub(Div(met[t], frac), met[t]), Zero)

\* replacement_power = np.where(expected_power > 0, expected_power, typical_power)
ReplacementPower(expected, typical, t) ==
    IF Gt(expected[t], Zero) THEN expected[t] ELSE typical[t]

\* Replaced with the fallback assigned on (online_fraction == 0) alone,
\* daylight or not.
ReplacedInTheDark(loss, frac, daylight, replacement) ==
    IF Eq(frac, Zero) THEN replacement
    ELSE IF ~daylight THEN Zero
    ELSE loss

\* Replaced without the fallback assignment.
ReplacedNever(loss, frac, daylight, replacement) ==
    IF ~daylight THEN Zero ELSE loss

\* lost_power.loc[~is_daylight] = 0, then
\* lost_power[(online_fraction == 0) & is_daylight] = replacement_power
Replaced(loss, frac, daylight, replacement) ==
    IF Eq(frac, Zero) /\ daylight THEN replacement
    ELSE IF ~daylight THEN Zero
    ELSE loss

\* `if system_limit:` is taken for a limit that is neither None nor 0.
LimitGiven(limit) == limit.kind = "value" /\ limit.v # Zero

\* Limited with the limit applied to the lost power alone, not to
\* meter + lost_power.
LimitedLossOnly(loss, met, limit, t) ==
    IF LimitGiven(limit) THEN ClipUpper(ClipLower(loss, Zero), limit.v) ELSE loss

\* total_power.clip(upper=system_limit) - meter, clipped to [0, system_limit]
Limited(loss, met, limit, t) ==
    IF LimitGiven(limit)
    THEN ClipUpper(ClipLower(Sub(ClipUpper(Add(met[t], loss), limit.v), met[t]),
                             Zero), limit.v)
    ELSE loss

\* downtime_loss(inverters, meter, online_mask, expected_power,
\*               production_profile, is_daylight, system_limit)
DowntimeLoss(inverters, meter, mask, expected, profile, tms, daylight, limit) ==
    LET inv == FillTable(inverters)
        met == FillSeries(meter)
        exp == FillSeries(expected)
        shares == InverterShares(inv, met, mask)
        typical == ProfileToSignal(profile, tms)
    IN  Mk([t \in 1..Len(inv) |->
            LET frac == OnlineFraction(inv, met, mask, shares, t)
            IN  Limited(Replaced(EstimatedLoss(met, frac, t), frac, daylight[t],
                                 ReplacementPower(exp, typical, t)),
                        met, limit, t)])

\* ---------------------------------------------------- signal_to_profile

\* Binary floating point: the values m * 2^e with a significand m of MantBits
\* bits.  MantBits stands for the 53 bits of a float64 column, scaled down to
\* keep significands small; the rounding rule (nearest, ties to the even
\* significand) is IEEE 754's.
MantBits == 3

RECURSIVE Pow2(_)
Pow2(k) == IF k = 0 THEN 1 ELSE 2 * Pow2(k - 1)

\* n/d rounded to the nearest integer, ties to even
RoundHalfEven(n, d) ==
    LET q == n \div d
        r == n % d
    IN  IF 2 * r < d THEN q
        ELSE IF 2 * r > d THEN q + 1
        ELSE IF q % 2 = 0 THEN q ELSE q + 1

\* n/d > 0 rounded to MantBits significant bits, times scale
RECURSIVE RoundScaled(_, _, _)
RoundScaled(n, d, scale) ==
    IF n < d * Pow2(MantBits - 1) THEN RoundScaled(2 * n, d, Div(scale, R(2)))
    ELSE IF n >= d * Pow2(MantBits) THEN RoundScaled(n, 2 * d, Mul(scale, R(2)))
    ELSE Mul(R(RoundHalfEven(n, d)), scale)

\* The float nearest to the real number a
FRound(a) ==
    IF a[2] = 0 \/ a[1] = 0 THEN a
    ELSE IF a[1] < 0 THEN Neg(RoundScaled(-a[1], a[2], One))
    ELSE RoundScaled(a[1], a[2], One)

\* The float sum of a group, added left to right
RECURSIVE FSum(_, _)
FSum(acc, s) == IF s = <<>> THEN acc ELSE FSum(FRound(Add(acc, Head(s))), Tail(s))

\* The aggregation of pivot_table (aggfunc mean): float sum / count
FMean(s) == FRound(Div(FSum(Zero, s), R(Len(s))))

\* The values of the signal at the timestamps of cell p, NaN dropped
Group(sig, tms, p) ==
    DropNa([t \in 1..Len(sig) |-> IF tms[t] = p THEN sig[t] ELSE NaN])

\* signal_to_profile(signal): a cell for every <<hour, month>> that has a
\* value in the signal, holding the mean of its values; no other cell.
SignalToProfile(sig, tms) ==
    LET cells == {p \in {tms[t] : t \in 1..Len(tms)} : Group(sig, tms, p) # <<>>}
    IN  [p \in cells |-> FMean(Group(sig, tms, p))]

\* ------------------------------------------------- the calls and inputs

VARIABLES
    inverters,          \* table of inverter power readings
    meter,              \* series of meter power readings
    times,              \* the time axis: <<hour, month>> of every timestamp
    low_limit,          \* is_online's low_limit argument
    online_mask,        \* is_online's result
    expected_power,     \* downtime_loss's arguments ...
    production_profile,
    is_daylight,
    system_limit,
    lost_power,         \* downtime_loss's result
    signal,             \* profile_to_signal's result
    profile_back,       \* signal_to_profile's result
    pc                  \* which call has returned

vars == <<inverters, meter, times, low_limit, online_mask, expected_power,
          production_profile, is_daylight, system_limit, lost_power, signal,
          profile_back, pc>>

\* Bounds of the checked inputs.
MaxInv == 2
MaxTimes == 3

\* Readings: an inverter reports nothing (0) or full power; the meter reads
\* nothing, one inverter's worth or two.
InverterReadings == {Zero, R(100)}
MeterReadings == {Zero, R(100), R(200)}

Tables ==
    UNION {[1..T -> [1..n -> InverterReadings]] : <<T, n>> \in (1..MaxTimes) \X (1..MaxInv)}

\* A time axis of the first hours of one month, two timestamps to the hour.
Axis(T) == [t \in 1..T |-> <<(t + 1) \div 2, 6>>]

\* The thresholds a caller passes: none, one float, a series with that float
\* for every inverter, and a series whose last inverter has a threshold equal
\* to its full-power reading.
LowLimits(n) ==
    { [kind |-> "none"],
      [kind |-> "scalar", x |-> R(60)],
      [kind |-> "series", v |-> [j \in 1..n |-> R(60)]],
      [kind |-> "series", v |-> [j \in 1..n |-> IF j = n THEN R(100) ELSE R(60)]] }

\* Expected power: unavailable (0) or modelled, for the whole axis.
ExpectedSeries(T) == {[t \in 1..T |-> Zero], [t \in 1..T |-> R(150)]}

\* A typical-production profile with a cell for every hour of the axis.
TypicalProfile(T) == [p \in {Axis(T)[t] : t \in 1..T} |-> R(80 + p[1])]

\* Daylight masks: all light, all dark, and the two that differ at the first
\* timestamp only.
DaylightSeries(T) ==
    {[t \in 1..T |-> a <=> (t = 1 \/ b)] : a, b \in BOOLEAN}

SystemLimits ==
    {[kind |-> "none"], [kind |-> "value", v |-> Zero], [kind |-> "value", v |-> R(150)]}

None == <<>>

Init ==
    /\ inverters \in Tables
    /\ meter \in [1..Len(inverters) -> MeterReadings]
    /\ times = Axis(Len(inverters))
    /\ low_limit = None
    /\ online_mask = None
    /\ expected_power = None
    /\ production_profile = None
    /\ is_daylight = None
    /\ system_limit = None
    /\ lost_power = None
    /\ signal = None
    /\ profile_back = None
    /\ pc = "start"

\* online_mask = is_online(inverters, meter, low_limit)
CallIsOnline ==
    /\ pc = "start"
    /\ \E ll \in LowLimits(NumCols(inverters)) :
        /\ low_limit' = ll
        /\ online_mask' = IsOnlineMask(inverters, meter, ll)
    /\ pc' = "masked"
    /\ UNCHANGED <<inverters, meter, times, expected_power, production_profile,
                   is_daylight, system_limit, lost_power, signal, profile_back>>

\* lost_power = downtime_loss(inverters, meter, online_mask, expected_power,
\*                            production_profile, is_daylight, system_limit)
CallDowntimeLoss ==
    /\ pc = "masked"
    /\ \E exp \in ExpectedSeries(Len(inverters)),
          day \in DaylightSeries(Len(inverters)),
          lim \in SystemLimits :
        /\ expected_power' = exp
        /\ production_profile' = TypicalProfile(Len(inverters))
        /\ is_daylight' = day
        /\ system_limit' = lim
        /\ lost_power' = DowntimeLoss(inverters, meter, online_mask, exp,
                                      TypicalProfile(Len(inverters)), times, day, lim)
    /\ pc' = "done"
    /\ UNCHANGED <<inverters, meter, times, low_limit, online_mask, signal,
                   profile_back>>

Next == CallIsOnline \/ CallDowntimeLoss

Spec == Init /\ [][Next]_vars

\* ------------------------------------------- the profile conversions

\* Bound of the time axes of the conversions.
MaxAxis == 3

\* The <<hour, month>> cells of the checked profiles and time axes.
Cells == {<<0, 1>>, <<12, 1>>, <<12, 7>>}

\* Cell values, floats of at most MantBits bits.
CellValues == {R(3), R(4)}

Profiles == UNION {[D -> CellValues] : D \in SUBSET Cells}

Axes == UNION {[1..T -> Cells] : T \in 1..MaxAxis}

InitProfile ==
    /\ production_profile \in Profiles
    /\ times \in Axes
    /\ inverters = None
    /\ meter = None
    /\ low_limit = None
    /\ online_mask = None
    /\ expected_power = None
    /\ is_daylight = None
    /\ system_limit = None
    /\ lost_power = None
    /\ signal = None
    /\ profile_back = None
    /\ pc = "start"

\* signal = profile_to_signal(production_profile, times)
CallProfileToSignal ==
    /\ pc = "start"
    /\ signal' = ProfileToSignal(production_profile, times)
    /\ pc' = "signal"
    /\ UNCHANGED <<inverters, meter, times, low_limit, online_mask, expected_power,
                   production_profile, is_daylight, system_limit, lost_power,
                   profile_back>>

\* profile_back = signal_to_profile(signal)
CallSignalToProfile ==
    /\ pc = "signal"
    /\ profile_back' = SignalToProfile(signal, times)
    /\ pc' = "profile"
    /\ UNCHANGED <<inverters, meter, times, low_limit, online_mask, expected_power,
                   production_profile, is_daylight, system_limit, lost_power,
                   signal>>

NextProfile == CallProfileToSignal \/ CallSignalToProfile

SpecProfile == InitProfile /\ [][NextProfile]_vars

\* ------------------------------------------------------------- claims

\* What the formulas read of a state in which the calls have returned.
Timestamps == 1..Len(inverters)
Inverters == 1..NumCols(inverters)
Masked == pc \in {"masked", "done"}
Done == pc = "done"
NoLimit == system_limit.kind = "none"
Thr(j) == Threshold(FillTable(inverters), low_limit, j)
RowAllFalse(t) == \A j \in Inverters : ~online_mask[t][j]
RowAllTrue(t) == \A j \in Inverters : online_mask[t][j]
Shares == InverterShares(FillTable(inverters), FillSeries(meter), online_mask)
Frac(t) == OnlineFraction(FillTable(inverters), FillSeries(meter), online_mask, Shares, t)
\* The loss downtime_loss would return with the sun up everywhere
LossInDaylight ==
    DowntimeLoss(inverters, meter, online_mask, expected_power, production_profile,
                 times, [t \in Timestamps |-> TRUE], system_limit)
\* The loss downtime_loss would return without a system_limit
LossWithoutLimit ==
    DowntimeLoss(inverters, meter, online_mask, expected_power, production_profile,
                 times, is_daylight, [kind |-> "none"])

\* C1: downtime_loss returns, at every timestamp, a defined number that is
\* greater than or equal to 0.
C1_LostPowerDefinedNonNegative ==
    Done => \A t \in Timestamps : IsFinite(lost_power[t]) /\ Ge(lost_power[t], Zero)

C4_AboveThresholdIsOnline ==
    Masked => \A t \in Timestamps : \A j \in Inverters :
        Gt(inverters[t][j], Thr(j)) => online_mask[t][j]

\* C4 witness: a row in which one inverter was marked offline and another,
\* above its threshold, stayed online.
C4_OnlineBesideOffline ==
    /\ Masked
    /\ \E t \in Timestamps : \E j, k \in Inverters :
        /\ Gt(inverters[t][j], Thr(j)) /\ online_mask[t][j]
        /\ ~online_mask[t][k]

\* C5: where the meter and every inverter read 0, the mask row is all False,
\* however low_limit was passed.
C5_AllZeroRowIsOffline ==
    Masked => \A t \in Timestamps :
        (meter[t] = Zero /\ \A j \in Inverters : inverters[t][j] = Zero)
            => RowAllFalse(t)

\* The scenario of C6 at timestamp t: thresholds are positive, the set Z of
\* inverters reading 0 is neither empty nor everything, every other inverter
\* reads the same power P above its threshold, and the meter reads their sum.
ZeroReading(t) == {j \in Inverters : inverters[t][j] = Zero}
PartialOutage(t, P) ==
    /\ \A j \in Inverters : Gt(Thr(j), Zero)
    /\ ZeroReading(t) # {} /\ ZeroReading(t) # Inverters
    /\ \A j \in Inverters \ ZeroReading(t) :
        inverters[t][j] = P /\ Gt(P, Thr(j))
    /\ meter[t] = Mul(R(Cardinality(Inverters \ ZeroReading(t))), P)
ExactlyZeroReadingOffline(t) ==
    \A j \in Inverters : online_mask[t][j] <=> j \notin ZeroReading(t)
LossOfZeroReading(t, P) == Mul(R(Cardinality(ZeroReading(t))), P)

\* C6 (as claimed): at a daylight timestamp where k of n inverters read 0,
\* the others read P and the meter reads (n-k)*P, exactly the k are marked
\* offline and the lost power is k*P, whatever the rest of the series holds.
C6_PartialOutageFlaggedAndCharged ==
    (Done /\ NoLimit) =>
        \A t \in Timestamps : \A P \in InverterReadings :
            (is_daylight[t] /\ PartialOutage(t, P)) =>
                /\ ExactlyZeroReadingOffline(t)
                /\ lost_power[t] = LossOfZeroReading(t, P)

\* What C6 needs of the rest of the series: an inverter that reads 0 at t
\* reads above its threshold at some timestamp (its relative sizing is
\* known), and the normalized inverter shares are 1/n each.
SizingKnown(t) ==
    \E j \in ZeroReading(t) : \E u \in Timestamps : Gt(inverters[u][j], Thr(j))
EqualShares == \A j \in Inverters : Shares[j] = <<1, Cardinality(Inverters)>>

\* C6 (amended): in that scenario exactly the k zero-reading inverters are
\* marked offline provided one of them reads above its threshold at some
\* other timestamp, and the lost power is then k*P provided the normalized
\* inverter shares are equal.
C6_PartialOutageGivenHistory ==
    (Done /\ NoLimit) =>
        \A t \in Timestamps : \A P \in InverterReadings :
            (is_daylight[t] /\ PartialOutage(t, P) /\ SizingKnown(t)) =>
                /\ ExactlyZeroReadingOffline(t)
                /\ EqualShares => lost_power[t] = LossOfZeroReading(t, P)

\* C6 witness: the scenario with history, flagged and charged k*P > 0.
C6_OutageCharged ==
    /\ Done /\ NoLimit
    /\ \E t \in Timestamps : \E P \in InverterReadings :
        /\ is_daylight[t] /\ PartialOutage(t, P) /\ SizingKnown(t) /\ EqualShares
        /\ ExactlyZeroReadingOffline(t)
        /\ Gt(lost_power[t], Zero)

\* The scenario of C7 at timestamp t: every inverter reads 0 below a positive
\* threshold while the meter reads more than the sum of the thresholds.
CommsGap(t) ==
    /\ \A j \in Inverters : inverters[t][j] = Zero /\ Gt(Thr(j), Zero)
    /\ Gt(meter[t], NanSum([j \in Inverters |-> Thr(j)]))

\* C7: at a daylight timestamp with a communications gap every inverter
\* stays online and the lost power is 0, whatever the rest of the series holds.
C7_CommsGapCostsNothing ==
    (Done /\ NoLimit) =>
        \A t \in Timestamps :
            (is_daylight[t] /\ CommsGap(t)) =>
                RowAllTrue(t) /\ lost_power[t] = Zero

\* The cell of a profile matrix, NaN (undefined) when the profile has none.
Undefined == NaN
CellOf(f, p) == IF p \in DOMAIN f THEN f[p] ELSE Undefined
profile_back_cell(p) == CellOf(profile_back, p)
Hits(p) == Cardinality({t \in 1..Len(times) : times[t] = p})

\* C8 (as claimed): the round trip gives back the original profile at every
\* <<hour, month>> of the time axis, however many timestamps share it, and is
\* undefined everywhere else.
C8_RoundTripExact ==
    pc = "profile" =>
        \A p \in Cells :
            profile_back_cell(p) = IF Hits(p) > 0 THEN CellOf(production_profile, p)
                                   ELSE Undefined

\* C8 (amended): the round trip gives back the original profile at every
\* <<hour, month>> that one or two timestamps of the axis have (the float
\* mean of one value, or of two equal values, is exact), and is undefined at
\* every <<hour, month>> the axis does not have; at one that more timestamps
\* share it is defined exactly when the original cell is, and holds the
\* float mean of the equal broadcast values.
C8_RoundTripExactUpToTwoHits ==
    pc = "profile" =>
        \A p \in Cells :
            /\ Hits(p) \in {1, 2} => profile_back_cell(p) = CellOf(production_profile, p)
            /\ Hits(p) = 0 => profile_back_cell(p) = Undefined
            /\ Hits(p) > 2 =>
                profile_back_cell(p) =
                    IF p \in DOMAIN production_profile
                    THEN FMean([i \in 1..Hits(p) |-> production_profile[p]])
                    ELSE Undefined

\* C8 witness: one cell given back from a single timestamp, another from
\* several timestamps.
C8_OnceAndShared ==
    /\ pc = "profile"
    /\ \E p, q \in DOMAIN profile_back :
        /\ Hits(p) = 1 /\ profile_back[p] = production_profile[p]
        /\ Hits(q) > 1

\* C9: a mask row is all False exactly where every inverter is below its
\* threshold and the meter is below the sum of the n thresholds; a float
\* low_limit gives the same mask as the series with that float everywhere.
C9_SiteOfflineRows ==
    Masked =>
        /\ \A t \in Timestamps :
            RowAllFalse(t) <=>
                /\ \A j \in Inverters : Lt(inverters[t][j], Thr(j))
                /\ Lt(meter[t], NanSum([j \in Inverters |-> Thr(j)]))
        /\ low_limit.kind = "scalar" =>
            online_mask = IsOnlineMask(inverters, meter,
                [kind |-> "series", v |-> [j \in Inverters |-> low_limit.x]])

\* C10: without a system_limit, at a daylight timestamp whose online fraction
\* is 0 the lost power is expected_power when that is positive and the
\* profile's cell otherwise; where meter / online_fraction divides by 0 the
\* output is a finite number, never the quotient.
C10_FallbackReplacesQuotient ==
    (Done /\ NoLimit) =>
        \A t \in Timestamps :
            Eq(Frac(t), Zero) =>
                /\ IsFinite(lost_power[t])
                /\ is_daylight[t] =>
                    lost_power[t] = IF Gt(expected_power[t], Zero)
                                    THEN expected_power[t]
                                    ELSE production_profile[times[t]]

\* C10 witness: a daylight timestamp with online fraction 0 and a positive
\* meter (the quotient is infinite), expected power unavailable.
C10_InfiniteQuotientReplaced ==
    /\ Done /\ NoLimit
    /\ \E t \in Timestamps :
        /\ is_daylight[t] /\ Eq(Frac(t), Zero)
        /\ Gt(meter[t], Zero) /\ ~Gt(expected_power[t], Zero)
        /\ lost_power[t] = production_profile[times[t]]

====
